---- MODULE Spec2Model ----
(***************************************************************************)
(* Model of SqlLiteSyncStorage (packages/sync-core/src/lib/               *)
(* SqlLiteSyncStorage.ts): the four SQL tables, the constructor, the       *)
(* listener set, transaction() with its transaction handle, the change     *)
(* feed and the throttled tombstone pruner.                                *)
(*                                                                         *)
(* A table with a PRIMARY KEY is a function from the key to the row; the   *)
(* clock table has no key and is a sequence of rows.  A TEXT column that   *)
(* holds JSON is the tuple JSONstringify builds, and JSONparse reads it    *)
(* back.  An optional (possibly undefined) field is a set with at most one *)
(* element.                                                                *)
(***************************************************************************)
EXTENDS Integers, Sequences, FiniteSets, TLC

\* ---------------------------------------------------------------- bounds
\* documentClock is capped: no mutating call is made at this clock value.
MaxClock == 2
\* Number of transaction-handle calls one transaction body makes at most.
MaxCalls == 2
\* Number of onChange registrations one store instance receives at most.
MaxListeners == 2

\* Program constants (SqlLiteSyncStorage.ts:22-23), scaled down from
\* 1000 and 5000 so that the pruner's cases happen on a handful of ids.
TOMBSTONE_PRUNE_BUFFER_SIZE == 1
MAX_TOMBSTONES == 1

\* Record ids ("r:1", "r:2", ...), record payloads, source tags, metadata.
Ids == {1, 2}
Vals == {"x", "y"}
Sources == {"s1", "s2"}
MetaVals == {"v"}
\* createTLSchema().serialize(): an object, opaque to the store
SerializedSchema == [id |-> "schemaVersion", n |-> "sequences"]
\* MetadataKeys.schema (@tldraw/store)
SchemaKey == "schema"
MetaKeys == {"k"}

\* ------------------------------------------------------------- helpers
\* An optional value: {} is undefined, {v} is v.  Nullish(a, b) is a ?? b.
Nullish(a, b) == IF a = {} THEN b ELSE a
Some(v) == {v}
The(o) == CHOOSE v \in o : TRUE

\* JSON.stringify and JSON.parse on a record {id, n}.
JSONstringify(r) == <<"{", r.id, r.n, "}">>
JSONparse(s) == [id |-> s[2], n |-> s[3]]

\* The rows of a keyed table in the order a SELECT yields them (by key).
RECURSIVE KeysInOrder(_)
KeysInOrder(S) ==
  IF S = {} THEN <<>>
  ELSE LET m == CHOOSE x \in S : \A y \in S : x <= y
       IN  <<m>> \o KeysInOrder(S \ {m})

Restrict(f, S) == [x \in S |-> f[x]]
Max(S) == CHOOSE x \in S : \A y \in S : y <= x

VARIABLES
  constructed,   \* a store instance exists over the storage
  documents,     \* table documents: id -> [state, lastChangedClock]
  tombstones,    \* table tombstones: id -> clock
  metadata,      \* table metadata: key -> value
  clock,         \* table clock: sequence of [documentClock, tombstoneHistoryStartsAtClock]
  listeners,     \* this.listeners, in insertion order
  nextListener,  \* number of onChange registrations so far
  prunePending,  \* the throttled pruneTombstones has a trailing run scheduled
  pc,            \* "idle", "body" (inside the callback), "deliver" (listener loop),
                 \* "done" (transaction() has returned or thrown to its caller)
  txn,           \* the transaction call in progress, or the last one
  lastCommit,    \* documentClock returned by this instance's last committed
                 \* transaction that called setDocument or deleteDocument
  pruned,        \* the largest clock of a tombstone this instance's prune runs
                 \* have removed, if any
  replica,       \* a consumer's copy of the documents and the clock it was read at
  boot,          \* the snapshot argument of the constructor call just made
  op             \* the operation performed by the last step

vars == <<constructed, documents, tombstones, metadata, clock, listeners,
          nextListener, prunePending, pc, txn, lastCommit, pruned, replica,
          boot, op>>

\* The four tables as one value (what the host's atomic scope saves).
Db == [documents |-> documents, tombstones |-> tombstones,
       metadata |-> metadata, clock |-> clock]

EmptyTable == [x \in {} |-> 0]
EmptyDb == [documents |-> EmptyTable, tombstones |-> EmptyTable,
            metadata |-> EmptyTable, clock |-> <<>>]

\* ------------------------------------------------------ seed snapshots
\* RoomSnapshot values handed to the constructor: documentClock, the legacy
\* clock and tombstoneHistoryStartsAtClock may be undefined, tombstones may be
\* undefined; ids are unique, no id is both a document and a tombstone, and
\* the clocks are those of a room: watermark <= tombstone clock and every
\* row's clock <= the room's clock.
SnapIds == {1, 2}
SnapClocks == 0..1
Opt(S) == {{}} \cup {{v} : v \in S}
SnapClock(dc, legacy) == The(Nullish(dc, Nullish(legacy, Some(0))))
SnapTables(C, W) ==
  { t \in { [documents |-> [i \in D |-> [state |-> [id |-> i, n |-> "x"],
                                         lastChangedClock |-> dl[i]]],
             tombstones |-> [i \in T |-> tl[i]]] :
               D \in SUBSET SnapIds, T \in SUBSET SnapIds,
               dl \in [SnapIds -> 0..C], tl \in [SnapIds -> W..C] } :
      DOMAIN t.documents \cap DOMAIN t.tombstones = {} }
DocumentArray(docs) ==
  [k \in 1..Len(KeysInOrder(DOMAIN docs)) |-> docs[KeysInOrder(DOMAIN docs)[k]]]
MkSnapshot(dc, legacy, w, t, undef) ==
  [documentClock |-> dc, clock |-> legacy, tombstoneHistoryStartsAtClock |-> w,
   documents |-> DocumentArray(t.documents),
   tombstones |-> IF undef THEN {} ELSE Some(t.tombstones),
   schema |-> SerializedSchema]
\* Snapshots with every field present, over all tables on SnapIds ...
FullSnapshots ==
  UNION { UNION { { MkSnapshot(Some(C), {}, Some(W), t, FALSE) : t \in SnapTables(C, W) } :
      W \in 0..C } : C \in SnapClocks }
\* ... and snapshots with fields missing (legacy clock, no watermark, no
\* tombstones), holding one document.
LegacyTable == [documents |-> (1 :> [state |-> [id |-> 1, n |-> "y"], lastChangedClock |-> 0]),
                tombstones |-> EmptyTable]
LegacySnapshots ==
  UNION { UNION { UNION { { MkSnapshot(dc, legacy, w, LegacyTable, undef) : undef \in BOOLEAN } :
      w \in Opt(0..SnapClock(dc, legacy)) } :
    legacy \in Opt({1}) } :
    dc \in Opt(SnapClocks) }
Snapshots == FullSnapshots \cup LegacySnapshots

\* ---------------------------------------------------------- constructor
\* for (const doc of snapshot.documents) INSERT INTO documents ...
RECURSIVE InsertDocuments(_, _)
InsertDocuments(table, docs) ==
  IF docs = <<>> THEN table
  ELSE InsertDocuments(
         (Head(docs).state.id :>
            [state |-> JSONstringify(Head(docs).state),
             lastChangedClock |-> Head(docs).lastChangedClock]) @@ table,
         Tail(docs))

\* The constructor without its DELETE FROM tombstones.
ConstructorKeepsTombstones(db, snapshot) ==
  IF snapshot = {} THEN db
  ELSE LET s == The(snapshot)
           documentClock == The(Nullish(s.documentClock, Nullish(s.clock, Some(0))))
           tombstoneHistoryStartsAtClock ==
             The(Nullish(s.tombstoneHistoryStartsAtClock, Some(documentClock)))
       IN  [documents |-> InsertDocuments(EmptyTable, s.documents),
            tombstones |-> (IF s.tombstones = {} THEN EmptyTable ELSE The(s.tombstones))
                             @@ db.tombstones,
            metadata |-> (SchemaKey :> JSONstringify(s.schema)),
            clock |-> << [documentClock |-> documentClock,
                          tombstoneHistoryStartsAtClock |-> tombstoneHistoryStartsAtClock] >>]

\* new SqlLiteSyncStorage(storage, snapshot?): the tables after the call.
\* CREATE TABLE IF NOT EXISTS keeps existing rows and inserts none.
Constructor(db, snapshot) ==
  IF snapshot = {} THEN db
  ELSE LET s == The(snapshot)
           documentClock == The(Nullish(s.documentClock, Nullish(s.clock, Some(0))))
           tombstoneHistoryStartsAtClock ==
             The(Nullish(s.tombstoneHistoryStartsAtClock, Some(documentClock)))
       IN  [documents |-> InsertDocuments(EmptyTable, s.documents),
            tombstones |-> IF s.tombstones = {} THEN EmptyTable ELSE The(s.tombstones),
            metadata |-> (SchemaKey :> JSONstringify(s.schema)),
            clock |-> << [documentClock |-> documentClock,
                          tombstoneHistoryStartsAtClock |-> tombstoneHistoryStartsAtClock] >>]

\* SqlLiteSyncStorage.hasBeenInitialized(storage)
hasBeenInitialized == Len(clock) > 0

\* The transaction call: source and clockBefore (transaction), saved (the
\* atomic scope's savepoint), didIncrementClock (the handle), documentClock
\* and didChange (the result), idx (the listener loop's position).  The
\* other fields record what happened: the tables before the call, the last
\* commit before it, the calls the callback made, who threw, the listeners
\* at the start of the loop, the listener invocations, what the change feed
\* returned.
NoTxn == [status |-> "none", source |-> "", clockBefore |-> 0,
          didIncrementClock |-> FALSE, calls |-> 0, mutations |-> 0,
          wrote |-> {}, deleted |-> {}, before |-> {}, prevCommit |-> {},
          saved |-> {}, thrower |-> "", documentClock |-> 0, didChange |-> FALSE,
          idx |-> 0, atStart |-> <<>>, log |-> <<>>, changes |-> {}]

Init ==
  /\ constructed = FALSE
  /\ documents = EmptyTable
  /\ tombstones = EmptyTable
  /\ metadata = EmptyTable
  /\ clock = <<>>
  /\ listeners = <<>>
  /\ nextListener = 0
  /\ prunePending = FALSE
  /\ pc = "idle"
  /\ txn = NoTxn
  /\ lastCommit = {}
  /\ pruned = {}
  /\ replica = {}
  /\ boot = {}
  /\ op = "init"

\* A step of any operation but the constructor forgets the constructor's argument.
Did(kind) == op' = kind /\ boot' = {}

\* A new store instance over the storage: its listener set is empty, no
\* prune is scheduled, no transaction has run.
NewInstance(snapshot) ==
  LET db == Constructor(Db, snapshot) IN
  /\ pc = "idle"
  /\ documents' = db.documents
  /\ tombstones' = db.tombstones
  /\ metadata' = db.metadata
  /\ clock' = db.clock
  /\ constructed' = TRUE
  /\ listeners' = <<>>
  /\ nextListener' = 0
  /\ prunePending' = FALSE
  /\ txn' = NoTxn
  /\ lastCommit' = {}
  /\ pruned' = {}
  /\ replica' = {}
  /\ pc' = "idle"
  /\ op' = "construct"
  /\ boot' = Some([snapshot |-> snapshot,
                   hadRows |-> Db # EmptyDb,
                   hadOther |-> \/ DOMAIN documents \ DOMAIN db.documents # {}
                                \/ DOMAIN tombstones \ DOMAIN db.tombstones # {}
                                \/ DOMAIN metadata \ DOMAIN db.metadata # {}])

\* new SqlLiteSyncStorage(storage) / new SqlLiteSyncStorage(storage, snapshot)
Construct == \E snapshot \in {{}} \cup {Some(s) : s \in Snapshots} : NewInstance(snapshot)

\* TLFileDurableObject.getStorage on a fresh host object: loadResult is what
\* loadFromDatabase resolves to when the storage has not been initialized.
GetStorage ==
  IF hasBeenInitialized
    THEN NewInstance({})
    ELSE \E loadResult \in {[type |-> "room_not_found", snapshot |-> {}]}
                  \cup {[type |-> "room_found", snapshot |-> Some(s)] : s \in Snapshots} :
           IF loadResult.type = "room_found"
             THEN NewInstance(loadResult.snapshot)
             ELSE NewInstance({})

\* ------------------------------------------------------- clock manager
\* SELECT ... FROM clock LIMIT 1 yields the first row; .one() throws when
\* there is none.
HasClockRow(db) == Len(db.clock) >= 1
\* getClock(): SELECT documentClock FROM clock LIMIT 1
getClock(db) == db.clock[1].documentClock
\* _getTombstoneHistoryStartsAtClock()
getTombstoneHistoryStartsAtClock(db) == db.clock[1].tombstoneHistoryStartsAtClock

\* getNextClock() without the _didIncrementClock test: every call increments.
getNextClockEveryCall(rows, didIncrementClock) ==
  [i \in DOMAIN rows |-> [rows[i] EXCEPT !.documentClock = @ + 1]]
\* getNextClock() that sets the flag and forgets the UPDATE.
getNextClockNoUpdate(rows, didIncrementClock) == rows

\* getNextClock(): the clock table after the call (the UPDATE has no WHERE).
getNextClock(rows, didIncrementClock) ==
  IF ~didIncrementClock
    THEN [i \in DOMAIN rows |-> [rows[i] EXCEPT !.documentClock = @ + 1]]
    ELSE rows

\* ------------------------------------------------- transaction handle
\* setDocument(id, state): INSERT OR REPLACE INTO documents
setDocument(db, didIncrementClock, id, state) ==
  LET rows == getNextClock(db.clock, didIncrementClock)
      c == rows[1].documentClock
  IN  [db EXCEPT !.clock = rows,
                 !.documents = (id :> [state |-> JSONstringify(state),
                                       lastChangedClock |-> c]) @@ @]

\* INSERT INTO tombstones fails on the PRIMARY KEY when id has a row.
deleteDocumentThrows(db, id) == id \in DOMAIN db.tombstones

\* deleteDocument that stamps the tombstone with the next clock and leaves
\* the clock table as it was.
deleteDocumentClockNotStored(db, didIncrementClock, id) ==
  LET rows == getNextClock(db.clock, didIncrementClock)
      c == rows[1].documentClock
  IN  [db EXCEPT !.documents = Restrict(@, DOMAIN @ \ {id}),
                 !.tombstones = @ @@ (id :> c)]

\* deleteDocument(id): DELETE FROM documents; INSERT INTO tombstones
deleteDocument(db, didIncrementClock, id) ==
  LET rows == getNextClock(db.clock, didIncrementClock)
      c == rows[1].documentClock
  IN  [db EXCEPT !.clock = rows,
                 !.documents = Restrict(@, DOMAIN @ \ {id}),
                 !.tombstones = @ @@ (id :> c)]

\* setMetadata(key, value): INSERT OR REPLACE INTO metadata
setMetadata(db, key, value) == [db EXCEPT !.metadata = (key :> value) @@ @]

\* getChangesSince(sinceClock)
WipeAll == <<"WIPE_ALL">>
Put(state) == <<"PUT", state>>
Delete(id) == <<"DELETE", id>>
\* getChangesSince that keeps the caller's cursor after pushing WIPE_ALL.
getChangesSinceNoReset(db, sinceClock0) ==
  LET clk == getClock(db) IN
  IF sinceClock0 = clk THEN <<>>
  ELSE
    LET sinceClock1 == IF sinceClock0 > clk THEN -1 ELSE sinceClock0
        wipe == sinceClock1 < getTombstoneHistoryStartsAtClock(db)
        sinceClock == sinceClock1
        dbDocs == KeysInOrder({i \in DOMAIN db.documents :
                                 db.documents[i].lastChangedClock > sinceClock})
        dbTombstones == KeysInOrder({i \in DOMAIN db.tombstones :
                                       db.tombstones[i] > sinceClock})
    IN  (IF wipe THEN <<WipeAll>> ELSE <<>>)
        \o [k \in 1..Len(dbDocs) |-> Put(JSONparse(db.documents[dbDocs[k]].state))]
        \o [k \in 1..Len(dbTombstones) |-> Delete(dbTombstones[k])]

getChangesSince(db, sinceClock0) ==
  LET clk == getClock(db) IN
  IF sinceClock0 = clk THEN <<>>
  ELSE
    LET sinceClock1 == IF sinceClock0 > clk THEN -1 ELSE sinceClock0
        wipe == sinceClock1 < getTombstoneHistoryStartsAtClock(db)
        sinceClock == IF wipe THEN -1 ELSE sinceClock1
        dbDocs == KeysInOrder({i \in DOMAIN db.documents :
                                 db.documents[i].lastChangedClock > sinceClock})
        dbTombstones == KeysInOrder({i \in DOMAIN db.tombstones :
                                       db.tombstones[i] > sinceClock})
    IN  (IF wipe THEN <<WipeAll>> ELSE <<>>)
        \o [k \in 1..Len(dbDocs) |-> Put(JSONparse(db.documents[dbDocs[k]].state))]
        \o [k \in 1..Len(dbTombstones) |-> Delete(dbTombstones[k])]

\* ------------------------------------------------------------ listeners
\* onChange(callback): a fresh cb is added to the Set (at the end of its
\* insertion order).
OnChangeAdd(ls, l) == Append(ls, l)
\* The disposer onChange returns: this.listeners.delete(cb)
DisposerDelete(ls, l) == SelectSeq(ls, LAMBDA x : x # l)

\* ---------------------------------------------------------- transaction
\* didChange computed with >= in place of >.
didChangeOrEqual(clockBefore, clockAfter) == clockAfter >= clockBefore
\* didChange = clockAfter > clockBefore
didChange(clockBefore, clockAfter) == clockAfter > clockBefore
\* A scope that keeps the callback's writes when it throws.
transactionSyncNoRollback(saved, current) == current
\* storage.transactionSync rolls the tables back to their state at its
\* start when its callback throws.
transactionSyncRollback(saved, current) == saved

SetDb(db) ==
  /\ documents' = db.documents
  /\ tombstones' = db.tombstones
  /\ metadata' = db.metadata
  /\ clock' = db.clock

\* transaction(source, callback), up to the first call the callback makes:
\* clockBefore is read, the atomic scope opens, the handle is created.
\* getClock() throws when the clock table holds no row.
TransactionBeginFrom(sources) ==
  \E source \in sources :
    /\ constructed /\ pc = "idle"
    /\ IF HasClockRow(Db)
         THEN /\ txn' = [NoTxn EXCEPT !.status = "active", !.source = source,
                                      !.clockBefore = getClock(Db),
                                      !.before = Some(Db),
                                      !.prevCommit = lastCommit,
                                      !.saved = Some(Db)]
              /\ pc' = "body"
              /\ Did("begin")
         ELSE /\ txn' = [NoTxn EXCEPT !.status = "threw", !.source = source,
                                      !.thrower = "getClock", !.before = Some(Db)]
              /\ pc' = "done"
              /\ Did("threw")
    /\ UNCHANGED <<constructed, pruned, lastCommit, replica, documents, tombstones, metadata, clock,
                   listeners, nextListener, prunePending>>

CanCall == pc = "body" /\ txn.calls < MaxCalls
CanMutateUpTo(cap) == CanCall /\ (txn.didIncrementClock \/ getClock(Db) < cap)
CanMutate == CanMutateUpTo(MaxClock)

\* callback calls txn.setDocument(id, state), state.id = id
SetDocumentCapped(ids, vals, cap) ==
  \E id \in ids, n \in vals :
    /\ CanMutateUpTo(cap)
    /\ SetDb(setDocument(Db, txn.didIncrementClock, id, [id |-> id, n |-> n]))
    /\ txn' = [txn EXCEPT !.didIncrementClock = TRUE, !.calls = @ + 1,
                          !.mutations = @ + 1, !.changes = {},
                          !.wrote = @ \cup {id}]
    /\ Did("setDocument")
    /\ UNCHANGED <<constructed, pruned, lastCommit, replica, listeners, nextListener, prunePending, pc>>

\* The callback's error leaves transactionSync: the scope is rolled back and
\* the error reaches the caller of transaction().
Throw(who, t) ==
  /\ SetDb(transactionSyncRollback(The(txn.saved), Db))
  /\ txn' = [t EXCEPT !.status = "threw", !.thrower = who]
  /\ pc' = "done"
  /\ Did("threw")

\* callback calls txn.deleteDocument(id)
DeleteDocumentCapped(ids, cap) ==
  \E id \in ids :
    /\ CanMutateUpTo(cap)
    /\ IF deleteDocumentThrows(Db, id)
         THEN /\ Throw("sql", txn)
              /\ UNCHANGED <<constructed, pruned, lastCommit, replica, listeners, nextListener, prunePending>>
         ELSE /\ SetDb(deleteDocument(Db, txn.didIncrementClock, id))
              /\ txn' = [txn EXCEPT !.didIncrementClock = TRUE, !.calls = @ + 1,
                                    !.mutations = @ + 1, !.changes = {},
                                    !.deleted = @ \cup {id}]
              /\ prunePending' = TRUE
              /\ Did("deleteDocument")
              /\ UNCHANGED <<constructed, pruned, lastCommit, replica, listeners, nextListener, pc>>

SetDocumentOn(ids, vals) == SetDocumentCapped(ids, vals, MaxClock)
DeleteDocumentOn(ids) == DeleteDocumentCapped(ids, MaxClock)

\* callback calls txn.setMetadata(key, value)
SetMetadata ==
  \E key \in MetaKeys, value \in MetaVals :
    /\ CanCall
    /\ SetDb(setMetadata(Db, key, value))
    /\ txn' = [txn EXCEPT !.calls = @ + 1, !.changes = {}]
    /\ Did("setMetadata")
    /\ UNCHANGED <<constructed, pruned, lastCommit, replica, listeners, nextListener, prunePending, pc>>

\* callback calls txn.getChangesSince(sinceClock), once for each cursor in
\* SinceClocks; txn.changes keeps what each call returned.
SinceClocks == -1..(MaxClock + 1)
GetChangesSince ==
  /\ CanCall
  /\ txn' = [txn EXCEPT !.calls = @ + 1,
                        !.changes = Some([s \in SinceClocks |-> getChangesSince(Db, s)])]
  /\ Did("getChangesSince")
  /\ UNCHANGED <<constructed, pruned, lastCommit, replica, documents, tombstones, metadata, clock,
                 listeners, nextListener, prunePending, pc>>

\* The callback throws.
BodyThrow ==
  /\ pc = "body"
  /\ Throw("body", txn)
  /\ UNCHANGED <<constructed, pruned, lastCommit, replica, listeners, nextListener, prunePending>>

\* The callback returns: clockAfter and didChange are computed; the
\* listener loop starts when didChange, else the call returns.
BodyReturn ==
  /\ pc = "body"
  /\ LET clockAfter == getClock(Db)
         t == [txn EXCEPT !.documentClock = clockAfter,
                          !.didChange = didChange(txn.clockBefore, clockAfter),
                          !.atStart = listeners]
     IN  IF t.didChange /\ listeners # <<>>
           THEN /\ txn' = [t EXCEPT !.idx = 1]
                /\ pc' = "deliver"
                /\ Did("bodyReturn")
           ELSE /\ txn' = [t EXCEPT !.status = "returned"]
                /\ pc' = "done"
                /\ Did("returned")
  /\ lastCommit' = IF ~(didChange(txn.clockBefore, getClock(Db)) /\ listeners # <<>>)
                        /\ txn.mutations > 0
                     THEN Some(getClock(Db)) ELSE lastCommit
  /\ UNCHANGED <<constructed, pruned, replica, documents, tombstones, metadata, clock,
                 listeners, nextListener, prunePending>>

\* for (const listener of this.listeners) listener(source, clockAfter):
\* one iteration.  The callback may do nothing, call a disposer, register a
\* listener, or throw.  The Set's iterator visits entries added during the
\* loop and passes over entries deleted before it reaches them.
Notify ==
  /\ pc = "deliver" /\ txn.didChange /\ txn.idx <= Len(listeners)
  /\ LET l == listeners[txn.idx]
         entry == [listener |-> l, source |-> txn.source,
                   documentClock |-> txn.documentClock]
     IN
     \/ /\ txn' = [txn EXCEPT !.idx = @ + 1, !.log = Append(@, entry)]
        /\ Did("notify")
        /\ UNCHANGED <<constructed, pruned, lastCommit, replica, documents, tombstones, metadata, clock,
                       listeners, nextListener, prunePending, pc>>
     \/ \E d \in 1..Len(listeners) :
          /\ listeners' = DisposerDelete(listeners, listeners[d])
          /\ txn' = [txn EXCEPT !.idx = IF d <= txn.idx THEN @ ELSE @ + 1,
                                !.log = Append(@, entry)]
          /\ Did("notifyDispose")
          /\ UNCHANGED <<constructed, pruned, lastCommit, replica, documents, tombstones, metadata, clock,
                         nextListener, prunePending, pc>>
     \/ /\ nextListener < MaxListeners
        /\ listeners' = OnChangeAdd(listeners, nextListener + 1)
        /\ nextListener' = nextListener + 1
        /\ txn' = [txn EXCEPT !.idx = @ + 1, !.log = Append(@, entry)]
        /\ Did("notifyOnChange")
        /\ UNCHANGED <<constructed, pruned, lastCommit, replica, documents, tombstones, metadata, clock,
                       prunePending, pc>>
     \/ /\ Throw("listener", [txn EXCEPT !.log = Append(@, entry)])
        /\ UNCHANGED <<constructed, pruned, lastCommit, replica, listeners, nextListener, prunePending>>

\* The listener loop is over: the scope commits and transaction() returns
\* {documentClock: clockAfter, didChange, result}.
TransactionReturn ==
  /\ pc = "deliver" /\ txn.idx > Len(listeners)
  /\ txn' = [txn EXCEPT !.status = "returned"]
  /\ pc' = "done"
  /\ Did("returned")
  /\ lastCommit' = IF txn.mutations > 0 THEN Some(txn.documentClock) ELSE lastCommit
  /\ UNCHANGED <<constructed, pruned, replica, documents, tombstones, metadata, clock,
                 listeners, nextListener, prunePending>>

\* The caller of transaction() goes on with the result (or the
\* error) and the host is back in its event loop.
Yield ==
  /\ pc = "done"
  /\ txn' = NoTxn
  /\ pc' = "idle"
  /\ Did("idle")
  /\ UNCHANGED <<constructed, pruned, lastCommit, replica, documents, tombstones, metadata, clock,
                 listeners, nextListener, prunePending>>

\* onChange(callback), called between transactions
OnChange ==
  /\ constructed /\ pc = "idle" /\ nextListener < MaxListeners
  /\ listeners' = OnChangeAdd(listeners, nextListener + 1)
  /\ nextListener' = nextListener + 1
  /\ Did("idle")
  /\ UNCHANGED <<constructed, pruned, lastCommit, replica, documents, tombstones, metadata, clock,
                 prunePending, pc, txn>>

\* A disposer, called between transactions
Dispose ==
  \E d \in 1..Len(listeners) :
    /\ pc = "idle"
    /\ listeners' = DisposerDelete(listeners, listeners[d])
    /\ Did("idle")
    /\ UNCHANGED <<constructed, pruned, lastCommit, replica, documents, tombstones, metadata, clock,
                   nextListener, prunePending, pc, txn>>

\* ---------------------------------------------------------------- pruner
\* SELECT id, clock FROM tombstones ORDER BY clock DESC
RECURSIVE TombstonesByClockDesc(_)
TombstonesByClockDesc(t) ==
  IF DOMAIN t = {} THEN <<>>
  ELSE LET m == CHOOSE i \in DOMAIN t :
                  \A j \in DOMAIN t : t[i] > t[j] \/ (t[i] = t[j] /\ i <= j)
       IN  <<[id |-> m, clock |-> t[m]]>>
           \o TombstonesByClockDesc(Restrict(t, DOMAIN t \ {m}))

\* The cutoff loop left out: the list is cut at the buffer size.
CutoffAtBuffer(ts, cutoff) == cutoff

\* The cutoff loop, on the 0-based index of the code.
RECURSIVE Cutoff(_, _)
Cutoff(ts, cutoff) ==
  IF cutoff < Len(ts) /\ ts[cutoff].clock = ts[cutoff + 1].clock
    THEN Cutoff(ts, cutoff + 1)
    ELSE cutoff

\* A run that moves the watermark and deletes no tombstone.
pruneTombstonesNoDelete(db) ==
  IF Cardinality(DOMAIN db.tombstones) > MAX_TOMBSTONES
    THEN LET ts == TombstonesByClockDesc(db.tombstones)
             cutoff == Cutoff(ts, TOMBSTONE_PRUNE_BUFFER_SIZE)
             newTombstoneHistoryStartsAtClock ==
               IF cutoff < Len(ts) THEN ts[cutoff + 1].clock ELSE getClock(db)
         IN  [db EXCEPT
                !.clock = [i \in DOMAIN @ |->
                             [@[i] EXCEPT !.tombstoneHistoryStartsAtClock =
                                            newTombstoneHistoryStartsAtClock]]]
    ELSE db

\* A run that deletes the old tombstones and leaves the watermark alone.
pruneTombstonesNoWatermark(db) ==
  IF Cardinality(DOMAIN db.tombstones) > MAX_TOMBSTONES
    THEN LET ts == TombstonesByClockDesc(db.tombstones)
             cutoff == Cutoff(ts, TOMBSTONE_PRUNE_BUFFER_SIZE)
             idsToDelete == {ts[k].id : k \in (cutoff + 1)..Len(ts)}
         IN  [db EXCEPT !.tombstones = Restrict(@, DOMAIN @ \ idsToDelete)]
    ELSE db

\* The body of pruneTombstones: the tables after one run.
pruneTombstones(db) ==
  IF Cardinality(DOMAIN db.tombstones) > MAX_TOMBSTONES
    THEN LET ts == TombstonesByClockDesc(db.tombstones)
             cutoff == Cutoff(ts, TOMBSTONE_PRUNE_BUFFER_SIZE)
             newTombstoneHistoryStartsAtClock ==
               IF cutoff < Len(ts) THEN ts[cutoff + 1].clock ELSE getClock(db)
             idsToDelete == {ts[k].id : k \in (cutoff + 1)..Len(ts)}
         IN  [db EXCEPT
                !.clock = [i \in DOMAIN @ |->
                             [@[i] EXCEPT !.tombstoneHistoryStartsAtClock =
                                            newTombstoneHistoryStartsAtClock]],
                !.tombstones = Restrict(@, DOMAIN @ \ idsToDelete)]
    ELSE db

\* The trailing run of the throttled pruneTombstones, between transactions.
Prune ==
  /\ pc = "idle" /\ prunePending
  /\ SetDb(pruneTombstones(Db))
  /\ prunePending' = FALSE
  /\ LET removed == {tombstones[i] : i \in DOMAIN tombstones \ DOMAIN pruneTombstones(Db).tombstones}
     IN  pruned' = IF removed = {} THEN pruned
                   ELSE Some(Max(removed \cup pruned))
  /\ Did("prune")
  /\ UNCHANGED <<constructed, lastCommit, replica, listeners, nextListener, pc, txn>>

\* The store without subscribers: every seed snapshot, all ids and payloads.
TransactionBegin == TransactionBeginFrom({"s1"})
SetDocument == SetDocumentOn(Ids, Vals)
DeleteDocument == DeleteDocumentOn(Ids)

Next ==
  \/ Construct
  \/ GetStorage
  \/ TransactionBegin
  \/ SetDocument
  \/ DeleteDocument
  \/ SetMetadata
  \/ GetChangesSince
  \/ BodyThrow
  \/ BodyReturn
  \/ Yield
  \/ Prune

Spec == Init /\ [][Next]_vars

\* The store with subscribers: one seed snapshot, one record id, and the
\* listener set changing between and during deliveries.
BusIds == {1}
BusVals == {"x"}
BusSnapshot ==
  MkSnapshot(Some(0), {}, Some(0),
             [documents |-> (1 :> [state |-> [id |-> 1, n |-> "x"], lastChangedClock |-> 0]),
              tombstones |-> EmptyTable], FALSE)
BusConstruct == NewInstance(Some(BusSnapshot))
BusTransactionBegin == TransactionBeginFrom(Sources)
BusSetDocument == SetDocumentOn(BusIds, BusVals)
BusDeleteDocument == DeleteDocumentOn(BusIds)

NextBus ==
  \/ BusConstruct
  \/ BusTransactionBegin
  \/ BusSetDocument
  \/ BusDeleteDocument
  \/ SetMetadata
  \/ GetChangesSince
  \/ BodyThrow
  \/ BodyReturn
  \/ Notify
  \/ TransactionReturn
  \/ Yield
  \/ OnChange
  \/ Dispose
  \/ Prune

SpecBus == Init /\ [][NextBus]_vars

\* The store under deletions: started empty at clock 0, three record ids to
\* delete, and one more tick of the clock, so that a prune run meets more
\* tombstones than it keeps and tombstones that share a clock.
PruneIds == {1, 2, 3}
PruneVals == {"x"}
PruneMaxClock == MaxClock + 1
PruneSnapshot ==
  MkSnapshot(Some(0), {}, Some(0), [documents |-> EmptyTable, tombstones |-> EmptyTable], FALSE)
PruneConstruct == NewInstance(Some(PruneSnapshot))
PruneSetDocument == SetDocumentCapped({1}, PruneVals, PruneMaxClock)
PruneDeleteDocument == DeleteDocumentCapped(PruneIds, PruneMaxClock)

NextPrune ==
  \/ PruneConstruct
  \/ TransactionBegin
  \/ PruneSetDocument
  \/ PruneDeleteDocument
  \/ GetChangesSince
  \/ BodyThrow
  \/ BodyReturn
  \/ Yield
  \/ Prune

SpecPrune == Init /\ [][NextPrune]_vars

\* The store with a consumer: the consumer reads every document and the
\* clock in a transaction of its own and keeps them; the store goes on.
ReplicaIds == {1, 2}
ReplicaVals == {"x", "y"}
ReplicaSnapshot ==
  MkSnapshot(Some(0), {}, Some(0),
             [documents |-> (1 :> [state |-> [id |-> 1, n |-> "x"], lastChangedClock |-> 0]),
              tombstones |-> EmptyTable], FALSE)
ReplicaConstruct == NewInstance(Some(ReplicaSnapshot))
ReplicaSetDocument == SetDocumentOn(ReplicaIds, ReplicaVals)
ReplicaDeleteDocument == DeleteDocumentOn(ReplicaIds)

\* txn.documents(): every row, its state parsed, by id
documentsOf(db) == [i \in DOMAIN db.documents |-> JSONparse(db.documents[i].state)]

\* transaction(source, txn => [...txn.documents()]) by a consumer that holds
\* nothing yet: it keeps the documents and the documentClock of the result.
Sync ==
  /\ pc = "idle" /\ HasClockRow(Db) /\ replica = {}
  /\ replica' = Some([since |-> getClock(Db), docs |-> documentsOf(Db)])
  /\ Did("sync")
  /\ UNCHANGED <<constructed, pruned, lastCommit, documents, tombstones, metadata, clock,
                 listeners, nextListener, prunePending, pc, txn>>

NextReplica ==
  \/ ReplicaConstruct
  \/ TransactionBegin
  \/ ReplicaSetDocument
  \/ ReplicaDeleteDocument
  \/ GetChangesSince
  \/ BodyThrow
  \/ BodyReturn
  \/ Yield
  \/ Prune
  \/ Sync

SpecReplica == Init /\ [][NextReplica]_vars

\* ======================================================================
\* Properties
\* ======================================================================
Range(seq) == {seq[k] : k \in 1..Len(seq)}
AtBoundary == pc \in {"idle", "done"}

\* C1: after committed transactions of setDocument and deleteDocument calls
\* (and prune runs), no id is in both the documents table and the
\* tombstones table.
C1_DisjointKeyspace ==
  (constructed /\ AtBoundary) => DOMAIN documents \cap DOMAIN tombstones = {}

\* C2: a transaction call that returns returns documentClock <= clockBefore + 1;
\* documentClock = clockBefore + 1 exactly when the callback called
\* setDocument or deleteDocument; every document row it wrote and every
\* tombstone it created carries the returned documentClock.
C2_OneTickPerTransaction ==
  op = "returned" =>
    /\ txn.documentClock <= txn.clockBefore + 1
    /\ (txn.documentClock = txn.clockBefore + 1) <=> (txn.mutations > 0)
    /\ \A id \in txn.wrote :
         id \in DOMAIN documents => documents[id].lastChangedClock = txn.documentClock
    /\ \A id \in txn.deleted :
         id \in DOMAIN tombstones => tombstones[id] = txn.documentClock
\* A returned transaction that called both setDocument and deleteDocument.
C2_Witness ==
  /\ op = "returned" /\ txn.mutations = 2
  /\ txn.documentClock = txn.clockBefore + 1
  /\ \E id \in txn.wrote : id \in DOMAIN documents
  /\ \E id \in txn.deleted : id \in DOMAIN tombstones

\* C3: across transaction calls (committed or rolled back) and prune runs
\* the clock read at the boundaries of the calls never decreases, and a
\* committed transaction that called setDocument or deleteDocument returns
\* a documentClock greater than that of the last such transaction before it.
ClockAtLastBoundary == IF AtBoundary THEN getClock(Db) ELSE txn.clockBefore
C3_ClockMonotonic ==
  [][ /\ (op' # "construct" /\ pc' \in {"idle", "done"}
            /\ HasClockRow(Db) /\ HasClockRow(Db'))
        => getClock(Db') >= ClockAtLastBoundary
      /\ (op' = "returned" /\ txn'.mutations > 0 /\ txn'.prevCommit # {})
        => txn'.documentClock > The(txn'.prevCommit) ]_vars
\* The second of two committed mutating transactions has returned.
C3_Witness ==
  /\ op = "returned" /\ txn.mutations > 0 /\ txn.prevCommit # {}
  /\ txn.documentClock = MaxClock

\* C4: when the callback throws after setDocument, deleteDocument and
\* setMetadata calls, the four tables are as before the call, no listener
\* has been invoked, and the call ends with the error.
C4_RollbackOnThrow ==
  (op = "threw" /\ txn.thrower \in {"body", "sql"}) =>
    /\ Db = The(txn.before)
    /\ txn.log = <<>>
    /\ txn.status = "threw"
\* The callback threw after a write, with a listener subscribed.
C4_Witness ==
  /\ op = "threw" /\ txn.thrower = "body"
  /\ txn.mutations >= 1 /\ txn.calls = MaxCalls
  /\ listeners # <<>>

\* C5: when a transaction call returns with didChange, every listener that
\* was subscribed from the start of the delivery to the return has been
\* invoked exactly once, with (source, the returned documentClock), no
\* listener twice, in registration order; with didChange false no listener
\* has been invoked; a callback that made no setDocument or deleteDocument
\* call leaves documentClock unchanged, returns didChange = false and fires
\* no listener.
Invocations(l) == {k \in 1..Len(txn.log) : txn.log[k].listener = l}
C5_ListenersFireIffDidChange ==
  op = "returned" =>
    /\ txn.didChange <=> (txn.documentClock > txn.clockBefore)
    /\ txn.didChange =>
         /\ \A l \in Range(txn.atStart) \cap Range(listeners) :
              Cardinality(Invocations(l)) = 1
         /\ \A k \in 1..Len(txn.log) :
              /\ txn.log[k].source = txn.source
              /\ txn.log[k].documentClock = txn.documentClock
              /\ \A j \in 1..(k - 1) : txn.log[j].listener < txn.log[k].listener
    /\ ~txn.didChange => txn.log = <<>>
    /\ txn.mutations = 0 =>
         /\ txn.documentClock = txn.clockBefore
         /\ ~txn.didChange
         /\ txn.log = <<>>
\* Two subscribed listeners were notified by a transaction that returned.
C5_Witness ==
  /\ op = "returned" /\ txn.didChange
  /\ Len(listeners) = 2 /\ Len(txn.log) = 2 /\ txn.atStart = listeners

\* C6: getChangesSince(s) is the reference change feed: empty for s = C;
\* for W <= s < C one PUT per document changed after s and one DELETE per
\* tombstone after s, no WIPE_ALL; for s < W or s > C one WIPE_ALL, first,
\* then a PUT per document and a DELETE per tombstone.  WIPE_ALL appears at
\* most once and only first.
Count(r, e) == Cardinality({k \in 1..Len(r) : r[k] = e})
Conforms(db, s, r) ==
  LET C == getClock(db)
      W == getTombstoneHistoryStartsAtClock(db)
      full == s < W \/ s > C
      wantDocs == {i \in DOMAIN db.documents :
                     full \/ db.documents[i].lastChangedClock > s}
      wantTombstones == {i \in DOMAIN db.tombstones : full \/ db.tombstones[i] > s}
  IN  IF s = C THEN r = <<>>
      ELSE /\ Len(r) = (IF full THEN 1 ELSE 0) + Cardinality(wantDocs)
                         + Cardinality(wantTombstones)
           /\ full => r[1] = WipeAll
           /\ \A k \in 1..Len(r) : r[k] = WipeAll => (k = 1 /\ full)
           /\ \A i \in wantDocs : Count(r, Put(JSONparse(db.documents[i].state))) = 1
           /\ \A i \in wantTombstones : Count(r, Delete(i)) = 1
C6_ChangeFeed ==
  (op = "getChangesSince" /\ txn.changes # {}) =>
    \A s \in SinceClocks : Conforms(Db, s, The(txn.changes)[s])
\* The feed was read in a state where one cursor gets WIPE_ALL with a PUT
\* and a DELETE, and another gets an incremental PUT or DELETE.
C6_Witness ==
  /\ op = "getChangesSince" /\ txn.changes # {}
  /\ \E s \in SinceClocks :
       LET r == The(txn.changes)[s]
       IN  /\ Len(r) >= 3 /\ r[1] = WipeAll
           /\ \E k \in 2..Len(r) : r[k][1] = "PUT"
           /\ \E k \in 2..Len(r) : r[k][1] = "DELETE"
  /\ \E s \in SinceClocks :
       LET r == The(txn.changes)[s]
       IN  /\ Len(r) >= 1 /\ r[1] # WipeAll
           /\ Len(r) < Cardinality(DOMAIN documents) + Cardinality(DOMAIN tombstones)

\* C7: deleteDocument(id) completes without error whatever the prior state
\* of id, and the transaction leaves no documents row for id and the
\* tombstone (id, c), c the transaction's new clock.
C7_DeleteAlwaysSucceeds ==
  /\ ~(op = "threw" /\ txn.thrower = "sql")
  /\ op = "returned" =>
       \A id \in txn.deleted \ txn.wrote :
         /\ id \notin DOMAIN documents
         /\ id \in DOMAIN tombstones /\ tombstones[id] = txn.documentClock

\* C8: after construction the clock table holds exactly one row (both
\* fields 0 on empty storage without a snapshot), and every transaction and
\* prune run keeps it so.
C8_OneClockRow ==
  constructed =>
    /\ Len(clock) = 1
    /\ (op = "construct" /\ The(boot).snapshot = {} /\ ~The(boot).hadRows)
         => clock = <<[documentClock |-> 0, tombstoneHistoryStartsAtClock |-> 0]>>

\* C9: constructing with a snapshot S replaces all prior contents: the
\* documents, tombstones, schema, clock and watermark read back are S's
\* (documentClock falling back to the legacy clock, else 0; the watermark
\* falling back to the resolved documentClock), no other row remains; and
\* constructing with no snapshot leaves every table unchanged.
ExpectedClock(s) ==
  IF s.documentClock # {} THEN The(s.documentClock)
  ELSE IF s.clock # {} THEN The(s.clock) ELSE 0
ExpectedWatermark(s) ==
  IF s.tombstoneHistoryStartsAtClock # {} THEN The(s.tombstoneHistoryStartsAtClock)
  ELSE ExpectedClock(s)
ReadsBack(db, s) ==
  /\ {<<i, [state |-> JSONparse(db.documents[i].state),
            lastChangedClock |-> db.documents[i].lastChangedClock]>> :
        i \in DOMAIN db.documents}
       = {<<d.state.id, d>> : d \in Range(s.documents)}
  /\ db.tombstones = (IF s.tombstones = {} THEN EmptyTable ELSE The(s.tombstones))
  /\ DOMAIN db.metadata = {SchemaKey}
  /\ JSONparse(db.metadata[SchemaKey]) = s.schema
  /\ HasClockRow(db)
  /\ getClock(db) = ExpectedClock(s)
  /\ getTombstoneHistoryStartsAtClock(db) = ExpectedWatermark(s)
C9_SnapshotRoundTrip ==
  [][ op' = "construct" =>
        IF The(boot').snapshot = {}
          THEN Db' = Db
          ELSE ReadsBack(Db', The(The(boot').snapshot)) ]_vars
\* A snapshot with its clock under the legacy name was loaded over tables
\* that held rows it does not have.
C9_Witness ==
  /\ op = "construct" /\ The(boot).snapshot # {} /\ The(boot).hadOther
  /\ The(The(boot).snapshot).documentClock = {}
  /\ The(The(boot).snapshot).clock # {}

\* C10: a listener unsubscribed while a notification is being delivered
\* still receives that notification.
C10_InFlightDelivered ==
  (op = "returned" /\ txn.didChange) =>
    \A l \in Range(txn.atStart) : Invocations(l) # {}

\* ---------------------------------------------------------------- pruner
Min(S) == CHOOSE x \in S : \A y \in S : x <= y
TombstoneClocks(db) == {db.tombstones[i] : i \in DOMAIN db.tombstones}
PruneFound == Cardinality(DOMAIN tombstones)
PruneRemoved == DOMAIN tombstones \ DOMAIN tombstones'

\* C11: in every state the store reaches through transactions and prune
\* runs, the clock of every tombstone is at or after the watermark
\* tombstoneHistoryStartsAtClock, also after a prune run that removed nothing
\* and took the current clock as the watermark.
C11_TombstonesNotBeforeWatermark ==
  HasClockRow(Db) =>
    \A c \in TombstoneClocks(Db) : c >= getTombstoneHistoryStartsAtClock(Db)

\* C12: a prune run that finds more than MAX_TOMBSTONES tombstones leaves the
\* watermark at the clock of the oldest tombstone it retains, or at the
\* current clock when it retains none.
C12_WatermarkIsOldestRetained ==
  [][(op' = "prune" /\ PruneFound > MAX_TOMBSTONES) =>
       getTombstoneHistoryStartsAtClock(Db)' =
         (IF TombstoneClocks(Db)' = {} THEN getClock(Db)' ELSE Min(TombstoneClocks(Db)'))]_vars

\* C13: a prune run changes nothing when it finds at most MAX_TOMBSTONES
\* tombstones; otherwise it keeps at least the TOMBSTONE_PRUNE_BUFFER_SIZE
\* most recent tombstones, removes all or none of the tombstones that share
\* a clock, and every tombstone it removes is older than every one it keeps.
C13_PruneKeepsBufferAndCohorts ==
  [][op' = "prune" =>
       IF PruneFound <= MAX_TOMBSTONES
         THEN Db' = Db
         ELSE /\ DOMAIN tombstones' \subseteq DOMAIN tombstones
              /\ \A i \in DOMAIN tombstones' : tombstones'[i] = tombstones[i]
              /\ documents' = documents /\ metadata' = metadata
              /\ Cardinality(DOMAIN tombstones') >= TOMBSTONE_PRUNE_BUFFER_SIZE
              /\ \A i, j \in DOMAIN tombstones :
                    tombstones[i] = tombstones[j] => (i \in PruneRemoved <=> j \in PruneRemoved)
              /\ \A i \in PruneRemoved, j \in DOMAIN tombstones' :
                    tombstones[i] < tombstones[j]]_vars
\* a run that removed a tombstone and kept more than the buffer, the extra
\* ones sharing the clock of the last buffered one
C13_Witness ==
  /\ op = "prune" /\ pruned # {}
  /\ getTombstoneHistoryStartsAtClock(Db) = The(pruned)
  /\ \A c \in TombstoneClocks(Db) : c > The(pruned)
  /\ Cardinality(DOMAIN tombstones) > TOMBSTONE_PRUNE_BUFFER_SIZE

\* C14 as claimed: at every transaction boundary, prune runs interleaved,
\* the store holds at most MAX_TOMBSTONES + TOMBSTONE_PRUNE_BUFFER_SIZE
\* tombstones.
C14_TombstonesBounded ==
  AtBoundary =>
    Cardinality(DOMAIN tombstones) <= MAX_TOMBSTONES + TOMBSTONE_PRUNE_BUFFER_SIZE
\* C14 amended: right after a prune run the store holds at most
\* MAX_TOMBSTONES tombstones, or only the TOMBSTONE_PRUNE_BUFFER_SIZE most
\* recent ones and those that share the clock of the last of them.
C14_TombstonesBoundedAfterPrune ==
  op = "prune" =>
    LET ts == TombstonesByClockDesc(tombstones)
    IN  \/ Len(ts) <= MAX_TOMBSTONES
        \/ \A k \in (TOMBSTONE_PRUNE_BUFFER_SIZE + 1)..Len(ts) :
              ts[k].clock = ts[TOMBSTONE_PRUNE_BUFFER_SIZE].clock
C14_Witness ==
  op = "prune" /\ Cardinality(DOMAIN tombstones) > MAX_TOMBSTONES

\* ----------------------------------------------------------- change feed
\* C15: one list returned by getChangesSince never holds both a PUT of a
\* record with id x and a DELETE of x, also when x was deleted and then
\* created again.
C15_NoPutAndDeleteOfOneId ==
  (op = "getChangesSince" /\ txn.changes # {}) =>
    \A s \in SinceClocks :
      LET r == The(txn.changes)[s]
      IN  ~ \E j, k \in 1..Len(r) :
              r[j][1] = "PUT" /\ r[k][1] = "DELETE" /\ r[j][2].id = r[k][2]

\* C16: at every transaction boundary of a store started empty at clock 0
\* and driven by transactions and prune runs, every document's
\* lastChangedClock, every tombstone's clock and the watermark are at most
\* documentClock.
C16_NothingAheadOfDocumentClock ==
  (AtBoundary /\ HasClockRow(Db)) =>
    /\ \A i \in DOMAIN documents : documents[i].lastChangedClock <= getClock(Db)
    /\ \A c \in TombstoneClocks(Db) : c <= getClock(Db)
    /\ getTombstoneHistoryStartsAtClock(Db) <= getClock(Db)
\* after a prune run moved the watermark, with a document and tombstones
\* written by earlier transactions
C16_Witness ==
  /\ op = "prune" /\ getTombstoneHistoryStartsAtClock(Db) > 0
  /\ documents # EmptyTable /\ tombstones # EmptyTable
  /\ \E i \in DOMAIN documents : documents[i].lastChangedClock = getClock(Db)

\* What a consumer holds after applying a list of changes in order:
\* WIPE_ALL clears, PUT stores the record under its id, DELETE removes it.
RECURSIVE ApplyChanges(_, _)
ApplyChanges(docs, r) ==
  IF r = <<>> THEN docs
  ELSE LET h == Head(r)
           next == IF h = WipeAll THEN EmptyTable
                   ELSE IF h[1] = "PUT" THEN (h[2].id :> h[2]) @@ docs
                   ELSE Restrict(docs, DOMAIN docs \ {h[2]})
       IN  ApplyChanges(next, Tail(r))

\* C17: a consumer whose copy equalled the store's documents at clock s and
\* that applies getChangesSince(s) in the emitted order holds the store's
\* current documents, whatever sets, deletes, re-creations and prune runs
\* happened in between.
C17_ReplicaConverges ==
  (op = "getChangesSince" /\ txn.changes # {} /\ replica # {}) =>
    ApplyChanges(The(replica).docs, The(txn.changes)[The(replica).since]) = documentsOf(Db)

\* ------------------------------------------------------------- watermark
\* C18: once a prune run has removed a tombstone with clock c, the watermark
\* is at least c from then on, and every later getChangesSince(s) with
\* s < c begins with WIPE_ALL.
C18_PrunedClocksBehindWatermark ==
  pruned # {} =>
    /\ getTombstoneHistoryStartsAtClock(Db) >= The(pruned)
    /\ (op = "getChangesSince" /\ txn.changes # {}) =>
         \A s \in SinceClocks :
           s < The(pruned) =>
             /\ The(txn.changes)[s] # <<>>
             /\ Head(The(txn.changes)[s]) = WipeAll
\* the feed is read after a run removed a tombstone written by a transaction
\* and a later transaction deleted another record
C18_Witness ==
  /\ op = "getChangesSince" /\ txn.changes # {}
  /\ pruned # {} /\ The(pruned) >= 1
  /\ \E c \in TombstoneClocks(Db) : c > The(pruned)
  /\ getClock(Db) > The(pruned)

\* C19: across transactions and prune runs the watermark
\* tombstoneHistoryStartsAtClock never decreases.
C19_WatermarkNeverDecreases ==
  [][(op' # "construct" /\ HasClockRow(Db) /\ HasClockRow(Db)') =>
       getTombstoneHistoryStartsAtClock(Db)' >= getTombstoneHistoryStartsAtClock(Db)]_vars

\* ------------------------------------------------------------- listeners
\* The invocations of a delivery that ran to their end: all of the log, or
\* all but the last entry when that listener threw.
Completed ==
  IF txn.thrower = "listener" THEN SubSeq(txn.log, 1, Len(txn.log) - 1) ELSE txn.log

\* C20: no listener is told a clock value that does not become durable: when
\* the transaction() call has ended, it has committed and getClock() is at
\* least c for every listener invocation (source, c) made during it, also
\* when a later listener of the same delivery threw.
C20_NotifiedClockIsDurable ==
  (pc = "done" /\ Completed # <<>>) =>
    /\ txn.status = "returned"
    /\ \A k \in 1..Len(Completed) : getClock(Db) >= Completed[k].documentClock


=============================================================================
